---- MODULE Spec2Model ----
(***************************************************************************)
(* State-machine model of the Harry Potter RAG assistant:                  *)
(*   - GroqClient.chat           (src/src/groq_client.py)                  *)
(*   - HarryPotterRAG pipeline   (src/src/rag_pipeline.py)                 *)
(* Strings that the code inspects character by character (queries,         *)
(* completion texts) are sequences of one-character strings; fixed         *)
(* messages that the code only passes along are TLA+ strings.              *)
(***************************************************************************)
EXTENDS Integers, Sequences, FiniteSets, TLC

(***************************************************************************)
(* Configuration (src/src/config.py)                                       *)
(***************************************************************************)
MAX_RETRIES == 3

DEFAULT_LLM_MODEL == "llama-3.1-8b-instant"

FALLBACK_MODELS == <<"mixtral-8x7b-32768", "llama3-8b-8192", "llama2-70b-4096">>

\* models with the primary model appended instead of prepended
models_PrimaryLast == FALLBACK_MODELS \o <<DEFAULT_LLM_MODEL>>

\* GroqClient.__init__: self.models = [DEFAULT_LLM_MODEL] + FALLBACK_MODELS
models == <<DEFAULT_LLM_MODEL>> \o FALLBACK_MODELS

\* Config.RETRIEVAL_K: the k the vector-store retriever is built with
RETRIEVAL_K == 5

\* Python's None
None == "None"

(***************************************************************************)
(* Character strings                                                       *)
(***************************************************************************)
\* str.lower() on the characters the model uses
LowerChar(c) ==
    CASE c = "A" -> "a" [] c = "B" -> "b" [] c = "C" -> "c" [] c = "D" -> "d"
      [] c = "E" -> "e" [] c = "F" -> "f" [] c = "G" -> "g" [] c = "H" -> "h"
      [] c = "I" -> "i" [] c = "J" -> "j" [] c = "K" -> "k" [] c = "L" -> "l"
      [] c = "M" -> "m" [] c = "N" -> "n" [] c = "O" -> "o" [] c = "P" -> "p"
      [] c = "Q" -> "q" [] c = "R" -> "r" [] c = "S" -> "s" [] c = "T" -> "t"
      [] c = "U" -> "u" [] c = "V" -> "v" [] c = "W" -> "w" [] c = "X" -> "x"
      [] c = "Y" -> "y" [] c = "Z" -> "z" [] OTHER -> c

\* lower() that leaves the string as it is
Lower_Identity(s) == s

Lower(s) == [i \in 1..Len(s) |-> LowerChar(s[i])]

\* Python's `sub in s` for strings
Contains(s, sub) ==
    \E i \in 0..(Len(s) - Len(sub)) : SubSeq(s, i + 1, i + Len(sub)) = sub

IsSpace(c) == c = " "

\* str.strip(): drop leading and trailing whitespace
Strip(s) ==
    IF \A i \in 1..Len(s) : IsSpace(s[i]) THEN <<>>
    ELSE LET first == CHOOSE i \in 1..Len(s) :
                          /\ ~IsSpace(s[i])
                          /\ \A j \in 1..(i - 1) : IsSpace(s[j])
             last  == CHOOSE i \in 1..Len(s) :
                          /\ ~IsSpace(s[i])
                          /\ \A j \in (i + 1)..Len(s) : IsSpace(s[j])
         IN SubSeq(s, first, last)

(***************************************************************************)
(* Completion API: what one HTTP POST can yield                            *)
(***************************************************************************)
\* Completion texts the service may put in choices[0].message.content
TextPlain == <<"H", "e", " ", "i", "s", " ", "a", " ", "w", "i", "z", "a", "r", "d">>

TextSorry == <<"S", "o", "r", "r", "y", ",", " ", "n", "o">>

TextEmpty == <<>>

CompletionTexts == {TextPlain, TextSorry, TextEmpty}

\* Python values chat can hand back: a str, or what a JSON body may carry in
\* place of one (a number); NoneValue is Python's None as a value.
Str(text) == [type |-> "str", text |-> text]

IntValue == [type |-> "int", text |-> <<"4", "2">>]

NoneValue == [type |-> "NoneType", text |-> <<>>]

CompletionValues == {Str(t) : t \in CompletionTexts} \cup {IntValue}

\* Outcome of requests.post(...): a response with a status code, or an
\* exception raised by the transport.  body = "completion": the JSON body
\* carries choices[0].message.content = content; body = "malformed": it
\* does not.
Outcomes ==
    [kind : {"response"}, status : {200}, body : {"completion"}, content : CompletionValues]
    \cup [kind : {"response"}, status : {200}, body : {"malformed"}, content : {NoneValue}]
    \cup [kind : {"response"}, status : {429, 500}, body : {"none"}, content : {NoneValue}]
    \cup [kind : {"Timeout", "ConnectionError"}, status : {0}, body : {"none"}, content : {NoneValue}]

\* The fixed string chat returns when every model failed (its leading
\* emoji left out)
Unavailable ==
    <<"A", "l", "l", " ", "l", "a", "n", "g", "u", "a", "g", "e", " ", "m",
      "o", "d", "e", "l", "s", " ", "a", "r", "e", " ", "c", "u", "r", "r",
      "e", "n", "t", "l", "y", " ", "u", "n", "a", "v", "a", "i", "l", "a",
      "b", "l", "e", ".", " ", "P", "l", "e", "a", "s", "e", " ", "t", "r",
      "y", " ", "a", "g", "a", "i", "n", " ", "l", "a", "t", "e", "r", ".">>

\* What the body of one iteration of the retry loop decides: return a value,
\* leave the retry loop (break), go on to the next retry (continue) or let an
\* exception escape (raise); `sleep` lists the time.sleep calls it makes.
Step(act, sleep, value) == [act |-> act, sleep |-> sleep, value |-> value]

\* OnException without the except clause: the exception leaves chat
OnException_Propagates(retry) == Step("raise", <<>>, NoneValue)

\* except Exception as e
OnException(retry) ==
    IF retry = MAX_RETRIES - 1
    THEN Step("break", <<>>, NoneValue)
    ELSE Step("continue", <<1>>, NoneValue)

\* OnTimeout that gives up the whole call at the first timeout
OnTimeout_GivesUp(retry) == Step("return", <<>>, Str(Unavailable))

\* except requests.exceptions.Timeout
OnTimeout(retry) ==
    IF retry = MAX_RETRIES - 1
    THEN Step("break", <<>>, NoneValue)
    ELSE Step("continue", <<1>>, NoneValue)

\* On200 that reads the completion but goes on with the loop
On200_NoReturn(body, content, retry) ==
    IF body = "completion"
    THEN Step("continue", <<>>, content)
    ELSE OnException(retry)

\* On200 whose reading of the body is outside the try block
On200_MalformedRaises(body, content, retry) ==
    IF body = "completion"
    THEN Step("return", <<>>, content)
    ELSE Step("raise", <<>>, NoneValue)

\* if response.status_code == 200
On200(body, content, retry) ==
    IF body = "completion"
    THEN Step("return", <<>>, content)
    ELSE OnException(retry)    \* response.json()[...] raises inside the try

\* 2 ** retry
Pow2(n) == 2 ^ n

\* On429 that leaves the retry loop before the last back-off sleep
On429_BreakFirst(retry) ==
    IF retry = MAX_RETRIES - 1
    THEN Step("break", <<>>, NoneValue)
    ELSE Step("continue", <<Pow2(retry)>>, NoneValue)

\* elif response.status_code == 429
On429(retry) ==
    IF retry = MAX_RETRIES - 1
    THEN Step("break", <<Pow2(retry)>>, NoneValue)
    ELSE Step("continue", <<Pow2(retry)>>, NoneValue)

\* OnOtherStatus that sleeps 1s before a retry, as the except handlers do
OnOtherStatus_Sleeps(retry) ==
    IF retry = MAX_RETRIES - 1
    THEN Step("break", <<>>, NoneValue)
    ELSE Step("continue", <<1>>, NoneValue)

\* else (any other status code)
OnOtherStatus(retry) ==
    IF retry = MAX_RETRIES - 1
    THEN Step("break", <<>>, NoneValue)
    ELSE Step("continue", <<>>, NoneValue)

\* The try/except of one iteration of the inner loop
Handle(o, retry) ==
    IF o.kind = "response"
    THEN IF o.status = 200 THEN On200(o.body, o.content, retry)
         ELSE IF o.status = 429 THEN On429(retry)
         ELSE OnOtherStatus(retry)
    ELSE IF o.kind = "Timeout" THEN OnTimeout(retry)
    ELSE OnException(retry)

\* ModelsToTry that keeps the configured models behind the caller's model
ModelsToTry_ThenConfigured(model) ==
    IF model = None \/ model = "" THEN models ELSE <<model>> \o models

\* models_to_try = [model] if model else self.models
ModelsToTry(model) == IF model = None \/ model = "" THEN models ELSE <<model>>

\* Models a caller of chat may name (None: the parameter is left out)
CallerModels == {None, "", "gemma2-9b-it", "llama3-8b-8192"}

MAX_TOKENS == 1500

\* config.TEMPERATURE = 0.7; temperatures are counted in tenths
TEMPERATURE == 7

\* config.TOP_P = 0.9, in tenths
TOP_P == 9

\* A numeric argument a caller passes
Given(v) == [given |-> TRUE, v |-> v]

\* A numeric argument left at its default None
Absent == [given |-> FALSE, v |-> 0]

\* `value or default` that keeps every value but None
OrDefault_NoneOnly(value, default) == IF value.given THEN value.v ELSE default

\* value or default: None and 0 are falsy
OrDefault(value, default) == IF value.given /\ value.v # 0 THEN value.v ELSE default

\* max_tokens arguments a caller may pass
CallerMaxTokens == {Absent, Given(0), Given(50), Given(MAX_TOKENS), Given(2000)}

\* temperature arguments a caller may pass, in tenths
CallerTemperatures == {Absent, Given(0), Given(3), Given(TEMPERATURE), Given(10)}

\* The payload of a request to current_model
Payload(current_model, max_tokens, temperature) ==
    [model |-> current_model, max_tokens |-> max_tokens, temperature |-> temperature,
     top_p |-> TOP_P]

NoPayload == Payload(None, 0, 0)

\* A call chat(prompt, model, max_tokens, temperature) on record: its
\* position ("idle", "called", "sent"), its arguments, its local
\* models_to_try and the payload of its first request
ParamsCall(pc, model, max_tokens, temperature, to_try, payload) ==
    [pc |-> pc, model |-> model, max_tokens |-> max_tokens, temperature |-> temperature,
     models_to_try |-> to_try, payload |-> payload]

NoParamsCall == ParamsCall("idle", None, Absent, Absent, <<>>, NoPayload)

(***************************************************************************)
(* Query classifier (HarryPotterRAG.analyze_query)                         *)
(***************************************************************************)
CharacterPhrases ==
    {<<"w", "h", "o", " ", "i", "s">>,
     <<"t", "e", "l", "l", " ", "m", "e", " ", "a", "b", "o", "u", "t">>,
     <<"d", "e", "s", "c", "r", "i", "b", "e">>,
     <<"c", "h", "a", "r", "a", "c", "t", "e", "r">>}

PlotWords ==
    {<<"s", "u", "m", "m", "a", "r", "i", "z", "e">>,
     <<"s", "u", "m", "m", "a", "r", "y">>,
     <<"w", "h", "a", "t", " ", "h", "a", "p", "p", "e", "n", "s">>,
     <<"e", "v", "e", "n", "t", "s">>,
     <<"p", "l", "o", "t">>}

DetailWords ==
    {<<"h", "o", "w">>,
     <<"w", "h", "y">>,
     <<"w", "h", "a", "t">>,
     <<"w", "h", "e", "r", "e">>,
     <<"w", "h", "e", "n">>,
     <<"t", "r", "i", "v", "i", "a">>}

\* The comparison words without "vs"
ComparisonWords_NoVs ==
    {<<"c", "o", "m", "p", "a", "r", "e">>,
     <<"d", "i", "f", "f", "e", "r", "e", "n", "c", "e">>,
     <<"v", "e", "r", "s", "u", "s">>}

ComparisonWords ==
    {<<"c", "o", "m", "p", "a", "r", "e">>,
     <<"d", "i", "f", "f", "e", "r", "e", "n", "c", "e">>,
     <<"v", "s">>,
     <<"v", "e", "r", "s", "u", "s">>}

\* any(word in query_lower for word in words)
AnyIn(words, query_lower) == \E w \in words : Contains(query_lower, w)

\* len(query.split()): the number of maximal runs of non-whitespace
WordCount(query) ==
    Cardinality({i \in 1..Len(query) :
                     /\ ~IsSpace(query[i])
                     /\ (i = 1 \/ IsSpace(query[i - 1]))})

Analysis(type, k_docs, complexity) ==
    [type |-> type, k_docs |-> k_docs, complexity |-> complexity]

\* The classifier with the question words tested first
analyze_query_DetailFirst(query) ==
    LET query_lower == Lower(query)
        complexity == WordCount(query)
    IN IF AnyIn(DetailWords, query_lower)
       THEN Analysis("detail_query", 3, complexity)
       ELSE IF AnyIn(CharacterPhrases, query_lower)
       THEN Analysis("character_analysis", 4, complexity)
       ELSE IF AnyIn(PlotWords, query_lower)
       THEN Analysis("plot_summary", 6, complexity)
       ELSE IF AnyIn(ComparisonWords, query_lower)
       THEN Analysis("comparison", 5, complexity)
       ELSE Analysis("general", 5, complexity)

analyze_query(query) ==
    LET query_lower == Lower(query)
        complexity == WordCount(query)
    IN IF AnyIn(CharacterPhrases, query_lower)
       THEN Analysis("character_analysis", 4, complexity)
       ELSE IF AnyIn(PlotWords, query_lower)
       THEN Analysis("plot_summary", 6, complexity)
       ELSE IF AnyIn(DetailWords, query_lower)
       THEN Analysis("detail_query", 3, complexity)
       ELSE IF AnyIn(ComparisonWords, query_lower)
       THEN Analysis("comparison", 5, complexity)
       ELSE Analysis("general", 5, complexity)

(***************************************************************************)
(* Context retriever (HarryPotterRAG.retrieve_context)                     *)
(* A passage text is run-length encoded: a sequence of runs [c, n], the    *)
(* character c repeated n > 0 times, adjacent runs differing in c.         *)
(***************************************************************************)
Run(c, n) == [c |-> c, n |-> n]

RECURSIVE PLen(_)
\* len(content)
PLen(p) == IF p = <<>> THEN 0 ELSE Head(p).n + PLen(Tail(p))

\* content.strip()
PStrip(p) ==
    LET q == IF p # <<>> /\ IsSpace(Head(p).c) THEN Tail(p) ELSE p
    IN IF q # <<>> /\ IsSpace(q[Len(q)].c) THEN SubSeq(q, 1, Len(q) - 1) ELSE q

RECURSIVE PTake(_, _)
\* content[:k]
PTake(p, k) ==
    IF p = <<>> \/ k <= 0 THEN <<>>
    ELSE IF Head(p).n >= k THEN <<Run(Head(p).c, k)>>
    ELSE <<Head(p)>> \o PTake(Tail(p), k - Head(p).n)

\* hash(s): equal strings have equal hashes; the 64-bit hashes of distinct
\* prefixes are taken not to collide, so a hash stands for its string.
Hash(s) == s

\* The slice that takes the whole list
FirstK_All(seq, k) == seq

\* seq[:k]
FirstK(seq, k) == SubSeq(seq, 1, IF k < Len(seq) THEN k ELSE Len(seq))

\* The length test that lets 50 characters through
LongEnough_AtLeast50(content) == PLen(content) >= 50

\* len(content) > 50
LongEnough(content) == PLen(content) > 50

\* The hash of the whole content
ContentHash_Whole(content) == Hash(content)

\* content_hash = hash(content[:100])
ContentHash(content) == Hash(PTake(content, 100))

RECURSIVE Dedup(_, _, _)
\* The loop over context_docs[:max_docs]; accumulates context_parts and
\* seen_content.
Dedup(docs, context_parts, seen_content) ==
    IF docs = <<>> THEN context_parts
    ELSE LET content == PStrip(Head(docs))
             content_hash == ContentHash(content)
         IN IF content_hash \notin seen_content /\ LongEnough(content)
            THEN Dedup(Tail(docs), Append(context_parts, content),
                       seen_content \cup {content_hash})
            ELSE Dedup(Tail(docs), context_parts, seen_content)

RECURSIVE KeptPositions(_, _, _, _)
\* The same loop, telling which documents of context_docs[:max_docs] it
\* appends: `docs` are the documents from position `pos` on.
KeptPositions(docs, pos, kept, seen_content) ==
    IF docs = <<>> THEN kept
    ELSE LET content == PStrip(Head(docs))
             content_hash == ContentHash(content)
         IN IF content_hash \notin seen_content /\ LongEnough(content)
            THEN KeptPositions(Tail(docs), pos + 1, Append(kept, pos),
                               seen_content \cup {content_hash})
            ELSE KeptPositions(Tail(docs), pos + 1, kept, seen_content)

Returned(value) == [kind |-> "return", value |-> value, error |-> "", invoked |-> TRUE]

Raised(error, invoked) == [kind |-> "raise", value |-> <<>>, error |-> error, invoked |-> invoked]

\* retrieve_context without its first two lines
retrieve_context_NoGuard(analysis, initialized, answer) ==
    IF answer.kind = "raise"
    THEN Raised(answer.error, TRUE)
    ELSE IF answer.docs = <<>>
    THEN Returned(<<>>)
    ELSE Returned(Dedup(FirstK(answer.docs, analysis.k_docs), <<>>, {}))

\* retrieve_context raising where it finds no documents
retrieve_context_RaisesOnEmpty(analysis, initialized, answer) ==
    IF ~initialized
    THEN Raised("RAG system not initialized. Call initialize() first.", FALSE)
    ELSE IF answer.kind = "raise"
    THEN Raised(answer.error, TRUE)
    ELSE IF answer.docs = <<>>
    THEN Raised("no documents", TRUE)
    ELSE Returned(Dedup(FirstK(answer.docs, analysis.k_docs), <<>>, {}))

\* retrieve_context that filters the whole answer and cuts it afterwards
retrieve_context_FilterThenCut(analysis, initialized, answer) ==
    IF ~initialized
    THEN Raised("RAG system not initialized. Call initialize() first.", FALSE)
    ELSE IF answer.kind = "raise"
    THEN Raised(answer.error, TRUE)
    ELSE IF answer.docs = <<>>
    THEN Returned(<<>>)
    ELSE Returned(FirstK(Dedup(answer.docs, <<>>, {}), analysis.k_docs))

\* retrieve_context(query, analysis) when retriever.invoke(query) answers
\* `answer`: [kind |-> "docs", docs |-> ...] or [kind |-> "raise", ...].
\* `invoked` tells whether the vector-store retriever was called.
retrieve_context(analysis, initialized, answer) ==
    IF ~initialized
    THEN Raised("RAG system not initialized. Call initialize() first.", FALSE)
    ELSE IF answer.kind = "raise"
    THEN Raised(answer.error, TRUE)
    ELSE IF answer.docs = <<>>
    THEN Returned(<<>>)
    ELSE Returned(Dedup(FirstK(answer.docs, analysis.k_docs), <<>>, {}))

\* Passages the vector store may hold
PShort == <<Run("a", 50)>>

PLongA == <<Run("a", 100), Run("b", 20)>>

PLongA2 == <<Run("a", 100), Run("c", 20)>>

PLongB == <<Run("b", 51)>>

PPadded == <<Run(" ", 10), Run("a", 100), Run("b", 20), Run(" ", 3)>>

Docs(docs) == [kind |-> "docs", docs |-> docs, error |-> ""]

\* What retriever.invoke(query) may answer to a call of the pipeline
RetrieverAnswers ==
    {Docs(<<>>), Docs(<<PShort>>), Docs(<<PShort, PLongB>>),
     Docs(<<PPadded, PLongA2, PLongB, PLongA>>),
     [kind |-> "raise", docs |-> <<>>, error |-> "chromadb error"]}

(***************************************************************************)
(* Prompt composer and response assembler                                  *)
(* (HarryPotterRAG.create_enhanced_prompt, generate_response)              *)
(***************************************************************************)
\* type_instructions.get(analysis["type"], type_instructions["general"])
TypeInstruction(type) ==
    IF type = "character_analysis" THEN "Focus on character development, ..."
    ELSE IF type = "plot_summary" THEN "Organize information chronologically ..."
    ELSE IF type = "detail_query" THEN "Be specific and precise with facts. ..."
    ELSE IF type = "comparison" THEN "Clearly contrast the different elements ..."
    ELSE "Provide a well-rounded answer ..."

\* The prompt without the passages
create_enhanced_prompt_NoContext(query, context_parts, analysis) ==
    [context |-> <<>>, query |-> query,
     instruction |-> TypeInstruction(analysis.type)]

create_enhanced_prompt(query, context_parts, analysis) ==
    [context |-> context_parts, query |-> query,
     instruction |-> TypeInstruction(analysis.type)]

\* analysis['type'].replace('_', ' ').title()
TypeTitle(type) ==
    IF type = "character_analysis" THEN "Character Analysis"
    ELSE IF type = "plot_summary" THEN "Plot Summary"
    ELSE IF type = "detail_query" THEN "Detail Query"
    ELSE IF type = "comparison" THEN "Comparison"
    ELSE "General"

\* The strings generate_response returns: a fixed message, or a template
\* filled with the completion, the number of passages and the query type.
Message(msg) ==
    [msg |-> msg, response |-> NoneValue, num_sources |-> 0, query_type |-> "", error |-> ""]

PleaseType == Message("Please cast a question spell by typing your query!")

NotInitialized == Message("RAG system not initialized. Please check the setup.")

NoInformation == Message("I couldn't find relevant information in the Harry Potter books for your query.")

Enhanced(response, num_sources, type) ==
    [msg |-> "Magical Knowledge Retrieved", response |-> response,
     num_sources |-> num_sources, query_type |-> TypeTitle(type), error |-> ""]

Magical(response) ==
    [msg |-> "Magical Response", response |-> response,
     num_sources |-> 0, query_type |-> "", error |-> ""]

SpellMalfunction(error) ==
    [msg |-> "Spell Malfunction", response |-> NoneValue,
     num_sources |-> 0, query_type |-> "", error |-> error]

NoResult == Message("")

ErrorWords ==
    {<<"s", "o", "r", "r", "y">>,
     <<"e", "r", "r", "o", "r">>,
     <<"f", "a", "i", "l", "e", "d">>,
     <<"u", "n", "a", "v", "a", "i", "l", "a", "b", "l", "e">>}

\* Python truth value of what chat returned
Truthy(v) == IF v.type = "str" THEN v.text # <<>> ELSE v.type # "NoneType"

NoAnalysis == Analysis("", 0, 0)

NoPrompt == [context |-> <<>>, query |-> <<>>, instruction |-> ""]

\* Where a part of generate_response ends: it returns `value`, raises
\* `error`, or (kind "chat") has reached groq_client.chat(prompt).  `calls`
\* lists the collaborators called so far, in order.
Stage(kind, value, error, calls, analysis, context_parts, prompt) ==
    [kind |-> kind, value |-> value, error |-> error, calls |-> calls,
     analysis |-> analysis, context_parts |-> context_parts, prompt |-> prompt]

\* Blank without the strip
Blank_EmptyOnly(query) == query = <<>>

\* if not query or not query.strip()
Blank(query) == query = <<>> \/ Strip(query) = <<>>

\* NotReady that never holds
NotReady_Never(initialized) == FALSE

\* if not self.is_initialized
NotReady(initialized) == ~initialized

\* NoContext that never holds
NoContext_Never(context_parts) == FALSE

\* if not context_parts
NoContext(context_parts) == context_parts = <<>>

\* generate_response from its entry to the call of groq_client.chat
BeforeChat(query, initialized, answer) ==
    IF Blank(query)
    THEN Stage("return", PleaseType, "", <<>>, NoAnalysis, <<>>, NoPrompt)
    ELSE IF NotReady(initialized)
    THEN Stage("return", NotInitialized, "", <<>>, NoAnalysis, <<>>, NoPrompt)
    ELSE LET q == Strip(query)
             analysis == analyze_query(q)
             rc == retrieve_context(analysis, initialized, answer)
             calls == <<"analyze_query", "retrieve_context">>
                      \o (IF rc.invoked THEN <<"retriever.invoke">> ELSE <<>>)
             prompt == create_enhanced_prompt(q, rc.value, analysis)
         IN IF rc.kind = "raise"
            THEN Stage("raise", NoResult, rc.error, calls, analysis, <<>>, NoPrompt)
            ELSE IF NoContext(rc.value)
            THEN Stage("return", NoInformation, "", calls, analysis, rc.value, NoPrompt)
            ELSE Stage("chat", NoResult, "",
                       calls \o <<"create_enhanced_prompt", "groq_client.chat">>,
                       analysis, rc.value, prompt)

\* generate_response from the return of groq_client.chat to its end
AfterChat(response, calls, analysis, context_parts, prompt) ==
    IF ~Truthy(response)
    THEN Stage("return", Magical(response), "", calls, analysis, context_parts, prompt)
    ELSE IF response.type # "str"      \* response.lower() raises AttributeError
    THEN Stage("raise", NoResult, "object has no attribute 'lower'",
               calls, analysis, context_parts, prompt)
    ELSE IF ~AnyIn(ErrorWords, Lower(response.text))
    THEN Stage("return", Enhanced(response, Len(context_parts), analysis.type), "",
               calls, analysis, context_parts, prompt)
    ELSE Stage("return", Magical(response), "", calls, analysis, context_parts, prompt)

\* Catch without the except clause
Catch_Nothing(stage) == stage

\* try: ... except Exception as e: return "Spell Malfunction: ..."
Catch(stage) ==
    IF stage.kind = "raise"
    THEN [stage EXCEPT !.kind = "return", !.value = SpellMalfunction(stage.error)]
    ELSE stage

\* Queries the presentation layer may pass to generate_response
QEmpty == <<>>

QSpaces == <<" ", " ", " ">>

QWhoIs == <<"W", "h", "o", " ", "i", "s", " ", "S", "n", "a", "p", "e">>

QPlot == <<"p", "l", "o", "t">>

QVs == <<"S", "n", "a", "p", "e", " ", "v", "s", " ", "H", "a", "r", "r", "y">>

QPadded == <<" ", "w", "h", "y", " ">>

QSnape == <<"S", "n", "a", "p", "e">>

Queries == {QEmpty, QSpaces, QWhoIs, QPlot, QVs, QPadded, QSnape}

(***************************************************************************)
(* Inputs of direct calls of analyze_query and retrieve_context            *)
(***************************************************************************)
\* Pieces queries are put together from
QueryChunks ==
    {<<"w", "h", "o", " ", "i", "s">>,
     <<"W", "H", "O", " ", "I", "S">>,
     <<"c", "o", "m", "p", "a", "r", "e">>,
     <<"v", "s">>,
     <<"V", "s">>,
     <<"w", "h", "a", "t">>,
     <<"p", "l", "o", "t">>,
     <<"S", "n", "a", "p", "e">>,
     <<" ">>}

\* The most pieces in a query
MaxChunks == 3

RECURSIVE ChunkQueries(_)
\* The queries made of at most n pieces
ChunkQueries(n) ==
    IF n = 0 THEN {<<>>}
    ELSE LET shorter == ChunkQueries(n - 1)
         IN shorter \cup {q \o c : q \in shorter, c \in QueryChunks}

BoundedQueries == ChunkQueries(MaxChunks)

\* Two passages alike in their first 100 characters as stored, but not once
\* the leading whitespace is stripped
PPadB == <<Run(" ", 10), Run("a", 90), Run("b", 30)>>

PPadC == <<Run(" ", 10), Run("a", 90), Run("c", 30)>>

PassagePool == {PShort, PLongA, PLongA2, PLongB, PPadded, PPadB, PPadC}

RECURSIVE PassageLists(_)
\* The lists of at most n passages
PassageLists(n) ==
    IF n = 0 THEN {<<>>}
    ELSE LET shorter == PassageLists(n - 1)
         IN shorter \cup {Append(l, p) : l \in shorter, p \in PassagePool}

\* What a retriever built with k = RETRIEVAL_K may answer
RetrievedLists == PassageLists(RETRIEVAL_K)

PLongC == <<Run("c", 60)>>

PLongD == <<Run("d", 60)>>

\* A store holding six passages that match the query, all longer than 50
\* characters and different in their first 100, in the order of relevance
StoreSix == <<PLongB, PLongA, PStrip(PPadB), PStrip(PPadC), PLongC, PLongD>>

\* retriever.invoke(query) of the retriever built by
\* vectorstore.as_retriever(search_kwargs={"k": RETRIEVAL_K}), on a store
\* holding the passages `store` for the query: the RETRIEVAL_K most relevant
Retrieve(store) == Docs(FirstK(store, RETRIEVAL_K))

\* Queries of direct calls of retrieve_context: k_docs 4, 6, 3 and 5
RetrieveQueries == {QWhoIs, QPlot, <<"w", "h", "y">>, QVs}

\* analysis = analysis or self.analyze_query(query)
AnalysisOrDefault(analysis, query) ==
    IF analysis = NoAnalysis THEN analyze_query(query) ELSE analysis

\* The record of a direct call of analyze_query
AnalyzeCall(pc, query, analysis) == [pc |-> pc, query |-> query, analysis |-> analysis]

NoAnalyzeCall == AnalyzeCall("idle", <<>>, NoAnalysis)

\* The record of a direct call of retrieve_context: its arguments, what the
\* retriever answers, and once it has run the analysis it used (`used`),
\* its outcome and the positions of the documents it appended (`kept`);
\* `store` lists the passages the store holds for the query
RetrieveCall(pc, query, store, answer, used, outcome, kept) ==
    [pc |-> pc, query |-> query, store |-> store, answer |-> answer, used |-> used,
     outcome |-> outcome, kept |-> kept]

NoRetrieveCall ==
    RetrieveCall("idle", <<>>, <<>>, Docs(<<>>), NoAnalysis, Returned(<<>>), <<>>)

(***************************************************************************)
(* Pipeline start-up (HarryPotterRAG.initialize)                           *)
(***************************************************************************)
\* What initialize() finds: the database path exists, the embedding model
\* and the vector store load, a test retrieval yields documents.
Environments ==
    [path_exists : BOOLEAN, components_load : BOOLEAN, test_docs : BOOLEAN]

\* initialize() that does not test the retriever
InitializeSucceeds_NoTest(env) == env.path_exists /\ env.components_load

\* initialize() reaches `self.is_initialized = True`
InitializeSucceeds(env) == env.path_exists /\ env.components_load /\ env.test_docs

\* initialize() reaches `self.retriever = self.vectorstore.as_retriever(...)`
BuildsRetriever(env) == env.path_exists /\ env.components_load

\* The record of a call of initialize(): the environment it ran in and the
\* value it returned
InitializeCall(pc, env, result) == [pc |-> pc, env |-> env, result |-> result]

NoInitializeCall ==
    InitializeCall("idle", [path_exists |-> FALSE, components_load |-> FALSE,
                            test_docs |-> FALSE], FALSE)

(***************************************************************************)
(* Concurrent calls of generate_response: the serving runtime runs the     *)
(* handler on several threads; each call has its own local variables       *)
(***************************************************************************)
\* The number of threads serving requests
NumThreads == 2

ThreadIds == 1..NumThreads

NoOutcome == [kind |-> "none", status |-> 0, body |-> "none", content |-> NoneValue]

NoStage == Stage("return", NoResult, "", <<>>, NoAnalysis, <<>>, NoPrompt)

\* The local variables of one call of generate_response and of the call of
\* chat it makes: `stage` holds analysis, context_parts and prompt, `sent`
\* counts the HTTP requests of the call and `last` is the outcome of the
\* last one
Thread(pc, query, answer, stage, attempt_, retry_, response, sent, last, result) ==
    [pc |-> pc, query |-> query, answer |-> answer, stage |-> stage,
     attempt |-> attempt_, retry |-> retry_, response |-> response,
     sent |-> sent, last |-> last, result |-> result]

ThreadIdle ==
    Thread("idle", <<>>, Docs(<<>>), NoStage, 0, 0, NoneValue, 0, NoOutcome, NoResult)

\* analysis, context_parts, prompt and response kept in one place for all
\* threads
Write_Shared(all, t, th) ==
    [u \in DOMAIN all |->
        IF u = t THEN th
        ELSE [all[u] EXCEPT !.stage = th.stage, !.response = th.response]]

\* Thread t assigns its local variables
Write(all, t, th) == [all EXCEPT ![t] = th]

\* What the collaborators answer to concurrent calls
ThreadQueries == {QSpaces, QWhoIs}

ThreadAnswers == {Docs(<<>>), Docs(<<PShort, PLongB>>)}

ThreadOutcomes ==
    {o \in Outcomes : \/ o.status = 500
                      \/ o.body = "completion" /\ o.content = Str(TextPlain)}

(***************************************************************************)
(* Application start-up (main.py, Config.validate_config,                  *)
(* GroqClient.test_connection, HarryPotterRAG.get_system_stats)            *)
(***************************************************************************)
\* What main() finds: GROQ_API_KEY is set, the Chroma database directory
\* exists
StartEnvironments == [key_set : BOOLEAN, db_exists : BOOLEAN]

DbNotFound == "Chroma database not found at: CHROMA_DB_PATH"

KeyNotSet == "GROQ_API_KEY not set in environment variables"

\* validate_config that does not look at the API key
validate_config_NoKeyCheck(env) ==
    IF ~env.db_exists THEN <<DbNotFound>> ELSE <<>>

\* Config.validate_config(): the list of errors.  DATA_DIR.mkdir(exist_ok=True)
\* is taken to succeed: BASE_DIR, which holds src/, exists.
validate_config(env) ==
    (IF ~env.db_exists THEN <<DbNotFound>> ELSE <<>>)
        \o (IF ~env.key_set THEN <<KeyNotSet>> ELSE <<>>)

\* Config.get_database_info() is not None
get_database_info(env) == env.db_exists

ApiTest(status, message) == [status |-> status, message |-> message]

NoApiTest == ApiTest("", "")

\* GroqClient.test_connection(), given how its call of chat ended
test_connection(chat_pc) ==
    IF chat_pc = "raised"
    THEN ApiTest("error", "Connection failed")
    ELSE ApiTest("success", "Connection successful")

\* The status of HarryPotterRAG.get_system_stats() when retriever.invoke("test")
\* answers `answer`
get_system_stats(initialized, answer) ==
    IF ~initialized THEN "not_initialized"
    ELSE IF answer.kind = "raise" THEN "error"
    ELSE "ready"

\* initialize_system that goes on whatever initialize() returned
initialize_system_AlwaysTrue(initialize_result, stats_status) == TRUE

\* initialize_system(): the value it returns, given what initialize()
\* returned and the status of the statistics
initialize_system(initialize_result, stats_status) ==
    IF ~initialize_result THEN FALSE ELSE stats_status = "ready"

\* What the UI library does: create_interface builds the interface or
\* raises, interface.launch serves or raises
UiBehaviours == [creates : BOOLEAN, launches : BOOLEAN]

(***************************************************************************)
(* State                                                                   *)
(***************************************************************************)
VARIABLES
    is_initialized, \* HarryPotterRAG.is_initialized
    g_pc,           \* generate_response: "idle", "in_chat", "returned", "raised"
    g_query,        \* its query argument
    g_calls,        \* history: the collaborators it called, in order
    g_answer,       \* history: what retriever.invoke answered, if called
    g_analysis,     \* its local analysis
    g_context_parts,\* its local context_parts
    g_prompt,       \* its local prompt
    g_result,       \* what it returned
    c_pc,           \* chat: "idle", "loop" (inside the retry loops), "returned", "raised"
    c_caller,       \* who called chat: "api" (a direct caller), "generate_response"
    c_model,        \* the model argument of the call
    models_to_try,  \* chat's local models_to_try
    attempt,        \* index of current_model in models_to_try, from 0
    retry,          \* retry index for current_model, from 0
    c_result,       \* what chat returned
    requests,       \* history: the model named by each HTTP request of the call
    model_log,      \* history: requests to and sleeps for the model requested last
    a_call,         \* a direct call of analyze_query: position, argument, result
    r_call,         \* a direct call of retrieve_context: position, arguments, result
    retriever,      \* HarryPotterRAG.vectorstore and .retriever: "None" or "built"
    i_call,         \* the last call of initialize(): position, environment, result
    main_pc,        \* main(): "idle", "start", "testing", "validated", "initialized",
                    \* "serving", "returned"
    main_env,       \* the environment main() runs in
    config_errors,  \* validate_environment's local config_errors
    api_test,       \* validate_environment's local api_test
    main_log,       \* history: what the steps of main() returned or did, in order
    interface,      \* the UI: "None", "created", "launched"
    main_result,    \* what main() returned: "None" (not yet), "True", "False"
    threads,        \* the local variables of the call each serving thread runs
    p_call          \* the parameters of a call of chat and the first payload built

gen_vars == <<g_pc, g_query, g_calls, g_answer, g_analysis, g_context_parts, g_prompt, g_result>>

chat_vars == <<c_pc, c_caller, c_model, models_to_try, attempt, retry, c_result,
               requests, model_log>>

direct_vars == <<a_call, r_call>>

main_vars == <<main_pc, main_env, config_errors, api_test, main_log, interface, main_result>>

rest_vars == <<main_vars, threads, p_call>>

other_vars == <<direct_vars, rest_vars>>

vars == <<is_initialized, retriever, i_call, gen_vars, chat_vars, other_vars>>

RequestEvent(model, r, o) ==
    [ev |-> "request", model |-> model, retry |-> r, outcome |-> o, secs |-> 0]

SleepEvent(model, r, o, secs) ==
    [ev |-> "sleep", model |-> model, retry |-> r, outcome |-> o, secs |-> secs]

\* No call of chat on record
ChatIdle ==
    /\ c_pc = "idle"
    /\ c_caller = "api"
    /\ c_model = None
    /\ models_to_try = models
    /\ attempt = 0
    /\ retry = 0
    /\ c_result = NoneValue
    /\ requests = <<>>
    /\ model_log = <<>>

\* No call of generate_response on record
GenIdle ==
    /\ g_pc = "idle"
    /\ g_query = <<>>
    /\ g_calls = <<>>
    /\ g_answer = Docs(<<>>)
    /\ g_analysis = NoAnalysis
    /\ g_context_parts = <<>>
    /\ g_prompt = NoPrompt
    /\ g_result = NoResult

\* Forget the last call of chat
ChatReset ==
    /\ c_pc' = "idle"
    /\ c_caller' = "api"
    /\ c_model' = None
    /\ models_to_try' = models
    /\ attempt' = 0
    /\ retry' = 0
    /\ c_result' = NoneValue
    /\ requests' = <<>>
    /\ model_log' = <<>>

\* Forget the last call of generate_response
GenReset ==
    /\ g_pc' = "idle"
    /\ g_query' = <<>>
    /\ g_calls' = <<>>
    /\ g_answer' = Docs(<<>>)
    /\ g_analysis' = NoAnalysis
    /\ g_context_parts' = <<>>
    /\ g_prompt' = NoPrompt
    /\ g_result' = NoResult

\* main() is not running
MainIdle ==
    /\ main_pc = "idle"
    /\ main_env = [key_set |-> FALSE, db_exists |-> FALSE]
    /\ config_errors = <<>>
    /\ api_test = NoApiTest
    /\ main_log = <<>>
    /\ interface = "None"
    /\ main_result = "None"
    /\ threads = [t \in ThreadIds |-> ThreadIdle]
    /\ p_call = NoParamsCall

\* No top-level call is running
Quiescent == g_pc \in {"idle", "returned"} /\ c_pc \in {"idle", "returned"}

\* Entry of chat up to the first iteration of the loops
ChatEnter(caller, model) ==
    /\ c_pc' = "loop"
    /\ c_caller' = caller
    /\ c_model' = model
    /\ models_to_try' = ModelsToTry(model)
    /\ attempt' = 0
    /\ retry' = 0
    /\ c_result' = NoneValue
    /\ requests' = <<>>
    /\ model_log' = <<>>

\* A direct call chat(prompt, model).  The histories start afresh with each
\* top-level call (chat, generate_response, initialize).
chat(model) ==
    /\ Quiescent
    /\ ChatEnter("api", model)
    /\ GenReset
    /\ i_call' = NoInitializeCall
    /\ UNCHANGED <<is_initialized, retriever, other_vars>>

\* One iteration of `for retry in range(MAX_RETRIES)`: the POST, the handling
\* of its outcome, and the loop bookkeeping that follows (next retry, next
\* model, or the return after the loops).
chat_attempt(o) ==
    /\ c_pc = "loop"
    /\ LET current_model == models_to_try[attempt + 1]
           h == Handle(o, retry)
           earlier == IF retry = 0 THEN <<>> ELSE model_log
           sleeps == [i \in 1..Len(h.sleep) |->
                          SleepEvent(current_model, retry, o, h.sleep[i])]
           leaveModel == h.act = "break" \/ retry + 1 >= MAX_RETRIES
       IN /\ requests' = Append(requests, current_model)
          /\ model_log' = earlier \o <<RequestEvent(current_model, retry, o)>> \o sleeps
          /\ IF h.act = "return"
             THEN /\ c_pc' = "returned"
                  /\ c_result' = h.value
                  /\ UNCHANGED <<attempt, retry>>
             ELSE IF h.act = "raise"
             THEN /\ c_pc' = "raised"
                  /\ UNCHANGED <<attempt, retry, c_result>>
             ELSE IF ~leaveModel
             THEN /\ retry' = retry + 1
                  /\ UNCHANGED <<c_pc, attempt, c_result>>
             ELSE IF attempt + 1 < Len(models_to_try)
             THEN /\ attempt' = attempt + 1
                  /\ retry' = 0
                  /\ UNCHANGED <<c_pc, c_result>>
             ELSE /\ c_pc' = "returned"       \* both loops are over
                  /\ c_result' = Str(Unavailable)
                  /\ UNCHANGED <<attempt, retry>>
    /\ UNCHANGED <<c_caller, c_model, models_to_try>>
    /\ UNCHANGED <<is_initialized, retriever, i_call, gen_vars, other_vars>>

\* What a stage of generate_response leaves in its locals
GenRecord(query, stage) ==
    /\ g_query' = query
    /\ g_calls' = stage.calls
    /\ g_analysis' = stage.analysis
    /\ g_context_parts' = stage.context_parts
    /\ g_prompt' = stage.prompt
    /\ g_result' = stage.value
    /\ g_pc' = IF stage.kind = "chat" THEN "in_chat"
               ELSE IF stage.kind = "return" THEN "returned" ELSE "raised"

\* generate_response(query), from its entry to its return or to its call of
\* groq_client.chat(prompt); retriever.invoke answers `answer` if called.
generate_response(query, answer) ==
    /\ Quiescent
    /\ \E stage \in {Catch(BeforeChat(query, is_initialized, answer))} :
          /\ GenRecord(query, stage)
          /\ g_answer' = (IF "retriever.invoke" \in {stage.calls[i] : i \in 1..Len(stage.calls)}
                          THEN answer ELSE Docs(<<>>))
          /\ IF stage.kind = "chat"
             THEN ChatEnter("generate_response", None)
             ELSE ChatReset
    /\ i_call' = NoInitializeCall
    /\ UNCHANGED <<is_initialized, retriever, other_vars>>

\* generate_response from the return of groq_client.chat to its own return
generate_response_resume ==
    /\ g_pc = "in_chat"
    /\ c_pc \in {"returned", "raised"}
    /\ LET after == IF c_pc = "raised"
                    THEN Stage("raise", NoResult, "raised by chat", g_calls,
                               g_analysis, g_context_parts, g_prompt)
                    ELSE AfterChat(c_result, g_calls, g_analysis, g_context_parts, g_prompt)
       IN \E stage \in {Catch(after)} : GenRecord(g_query, stage)
    /\ UNCHANGED <<is_initialized, retriever, i_call, g_answer, chat_vars, other_vars>>

\* The body of initialize() in environment env: the fields it assigns and
\* the value it returns (every exception is caught and gives False)
InitializeRun(env) ==
    /\ retriever' = (IF BuildsRetriever(env) THEN "built" ELSE retriever)
    /\ is_initialized' = (is_initialized \/ InitializeSucceeds(env))
    /\ i_call' = InitializeCall("returned", env, InitializeSucceeds(env))

\* HarryPotterRAG.initialize() in environment env
initialize(env) ==
    /\ Quiescent
    /\ InitializeRun(env)
    /\ GenReset
    /\ ChatReset
    /\ UNCHANGED other_vars

Init ==
    /\ is_initialized = FALSE
    /\ retriever = "None"
    /\ i_call = NoInitializeCall
    /\ GenIdle
    /\ ChatIdle
    /\ a_call = NoAnalyzeCall
    /\ r_call = NoRetrieveCall
    /\ MainIdle

Next ==
    \/ \E env \in Environments : initialize(env)
    \/ \E q \in Queries, a \in RetrieverAnswers : generate_response(q, a)
    \/ generate_response_resume
    \/ \E m \in CallerModels : chat(m)
    \/ \E o \in Outcomes : chat_attempt(o)

Spec == Init /\ [][Next]_vars

\* requests.post(..., timeout=config.REQUEST_TIMEOUT) returns or raises within
\* the timeout, so an iteration of the retry loop that has started ends
SpecLive == Init /\ [][Next]_vars /\ WF_vars(\E o \in Outcomes : chat_attempt(o))

(***************************************************************************)
(* Direct calls of analyze_query                                           *)
(***************************************************************************)
\* analyze_query(query) is about to run on some query
InitClassify ==
    /\ is_initialized = FALSE
    /\ retriever = "None"
    /\ i_call = NoInitializeCall
    /\ GenIdle
    /\ ChatIdle
    /\ a_call \in {AnalyzeCall("called", q, NoAnalysis) : q \in BoundedQueries}
    /\ r_call = NoRetrieveCall
    /\ MainIdle

\* analyze_query(query) runs and returns
analyze_query_call ==
    /\ a_call.pc = "called"
    /\ a_call' = AnalyzeCall("returned", a_call.query, analyze_query(a_call.query))
    /\ UNCHANGED <<is_initialized, retriever, i_call, gen_vars, chat_vars, r_call, rest_vars>>

NextClassify == analyze_query_call

SpecClassify == InitClassify /\ [][NextClassify]_vars

(***************************************************************************)
(* Direct calls of retrieve_context                                        *)
(***************************************************************************)
\* retrieve_context(query) is about to run: on an initialized pipeline whose
\* retriever answers with some list of passages or raises, or on a pipeline
\* that is not initialized
InitRetrieve ==
    /\ GenIdle
    /\ ChatIdle
    /\ a_call = NoAnalyzeCall
    /\ \E q \in RetrieveQueries :
          \/ /\ is_initialized = TRUE
             /\ r_call \in {RetrieveCall("called", q, l, Retrieve(l), NoAnalysis,
                                          Returned(<<>>), <<>>) :
                                l \in RetrievedLists \cup {StoreSix}}
          \/ /\ is_initialized \in BOOLEAN
             /\ r_call \in {RetrieveCall("called", q, a.docs, a, NoAnalysis,
                                          Returned(<<>>), <<>>) :
                                a \in RetrieverAnswers}
    /\ retriever = (IF is_initialized THEN "built" ELSE "None")
    /\ i_call = NoInitializeCall
    /\ MainIdle

\* retrieve_context(query) runs to its return or its raise
retrieve_context_call ==
    /\ r_call.pc = "called"
    /\ \E used \in {AnalysisOrDefault(NoAnalysis, r_call.query)} :
       \E outcome \in {retrieve_context(used, is_initialized, r_call.answer)} :
          r_call' = RetrieveCall(IF outcome.kind = "return" THEN "returned" ELSE "raised",
                                 r_call.query, r_call.store, r_call.answer, used, outcome,
                                 IF outcome.kind = "return"
                                 THEN KeptPositions(FirstK(r_call.answer.docs, used.k_docs),
                                                    1, <<>>, {})
                                 ELSE <<>>)
    /\ UNCHANGED <<is_initialized, retriever, i_call, gen_vars, chat_vars, a_call, rest_vars>>

NextRetrieve == retrieve_context_call

SpecRetrieve == InitRetrieve /\ [][NextRetrieve]_vars

(***************************************************************************)
(* The application: main() and the UI handler                              *)
(***************************************************************************)
\* The process starts in some environment
InitMain ==
    /\ is_initialized = FALSE
    /\ retriever = "None"
    /\ i_call = NoInitializeCall
    /\ GenIdle
    /\ ChatIdle
    /\ a_call = NoAnalyzeCall
    /\ r_call = NoRetrieveCall
    /\ main_pc = "start"
    /\ main_env \in StartEnvironments
    /\ config_errors = <<>>
    /\ api_test = NoApiTest
    /\ main_log = <<>>
    /\ interface = "None"
    /\ main_result = "None"
    /\ threads = [t \in ThreadIds |-> ThreadIdle]
    /\ p_call = NoParamsCall

\* main() returns False after the step `event`
MainFails(event) ==
    /\ main_pc' = "returned"
    /\ main_result' = "False"
    /\ main_log' = Append(main_log, event)

\* validate_environment() up to its call of groq_client.test_connection(),
\* which calls chat(prompt, max_tokens=50)
main_validate ==
    /\ main_pc = "start"
    /\ config_errors' = validate_config(main_env)
    /\ IF config_errors' # <<>> \/ ~get_database_info(main_env)
       THEN /\ MainFails("validate_environment=False")
            /\ UNCHANGED chat_vars
       ELSE /\ main_pc' = "testing"
            /\ ChatEnter("test_connection", None)
            /\ UNCHANGED <<main_log, main_result>>
    /\ UNCHANGED <<is_initialized, retriever, i_call, gen_vars, direct_vars,
                   main_env, api_test, interface, threads, p_call>>

\* validate_environment() from the return of test_connection() on
main_tested ==
    /\ main_pc = "testing"
    /\ c_pc \in {"returned", "raised"}
    /\ api_test' = test_connection(c_pc)
    /\ IF api_test'.status = "success"
       THEN /\ main_pc' = "validated"
            /\ main_log' = Append(main_log, "validate_environment=True")
            /\ UNCHANGED main_result
       ELSE MainFails("validate_environment=False")
    /\ UNCHANGED <<is_initialized, retriever, i_call, gen_vars, chat_vars, direct_vars,
                   main_env, config_errors, interface, threads, p_call>>

\* initialize_system(): initialize() in environment env, then
\* get_system_stats(), whose test retrieval is answered by `answer`
main_initialize(env, answer) ==
    /\ main_pc = "validated"
    /\ InitializeRun(env)
    /\ IF initialize_system(i_call'.result, get_system_stats(is_initialized', answer))
       THEN /\ main_pc' = "initialized"
            /\ main_log' = Append(main_log, "initialize_system=True")
            /\ UNCHANGED main_result
       ELSE MainFails("initialize_system=False")
    /\ UNCHANGED <<gen_vars, chat_vars, direct_vars,
                   main_env, config_errors, api_test, interface, threads, p_call>>

\* launch_application(): create_interface(), then interface.launch(), which
\* serves until it is stopped
main_launch(ui) ==
    /\ main_pc = "initialized"
    /\ IF ~ui.creates
       THEN /\ MainFails("launch_application=False")
            /\ UNCHANGED interface
       ELSE IF ~ui.launches
       THEN /\ MainFails("launch_application=False")
            /\ interface' = "created"
       ELSE /\ main_pc' = "serving"
            /\ interface' = "launched"
            /\ main_log' = Append(main_log, "interface.launch")
            /\ UNCHANGED main_result
    /\ UNCHANGED <<is_initialized, retriever, i_call, gen_vars, chat_vars, direct_vars,
                   main_env, config_errors, api_test, threads, p_call>>

\* The submit handler enhanced_rag_pipeline(query) of the launched
\* interface: a blank query is answered without calling the pipeline
ui_handler(query, answer) ==
    /\ main_pc = "serving"
    /\ ~Blank(query)
    /\ generate_response(query, answer)

\* The server is stopped: interface.launch() returns, or KeyboardInterrupt
main_stop ==
    /\ main_pc = "serving"
    /\ Quiescent
    /\ main_pc' = "returned"
    /\ main_result' = "True"
    /\ UNCHANGED <<is_initialized, retriever, i_call, gen_vars, chat_vars, direct_vars,
                   main_env, config_errors, api_test, main_log, interface, threads, p_call>>

NextMain ==
    \/ main_validate
    \/ main_tested
    \/ \E env \in Environments, a \in RetrieverAnswers : main_initialize(env, a)
    \/ \E ui \in UiBehaviours : main_launch(ui)
    \/ \E q \in Queries, a \in RetrieverAnswers : ui_handler(q, a)
    \/ generate_response_resume
    \/ \E o \in Outcomes : chat_attempt(o)
    \/ main_stop

SpecMain == InitMain /\ [][NextMain]_vars

(***************************************************************************)
(* The parameters of a call of chat                                        *)
(***************************************************************************)
InitParams ==
    /\ is_initialized = FALSE
    /\ retriever = "None"
    /\ i_call = NoInitializeCall
    /\ GenIdle
    /\ ChatIdle
    /\ a_call = NoAnalyzeCall
    /\ r_call = NoRetrieveCall
    /\ main_pc = "idle"
    /\ main_env = [key_set |-> FALSE, db_exists |-> FALSE]
    /\ config_errors = <<>>
    /\ api_test = NoApiTest
    /\ main_log = <<>>
    /\ interface = "None"
    /\ main_result = "None"
    /\ threads = [t \in ThreadIds |-> ThreadIdle]
    /\ p_call \in {ParamsCall("called", m, mt, t, <<>>, NoPayload) :
                      m \in CallerModels, mt \in CallerMaxTokens, t \in CallerTemperatures}

\* chat from its entry to the payload of its first request
chat_payload ==
    /\ p_call.pc = "called"
    /\ LET to_try == ModelsToTry(p_call.model)
           max_tokens == OrDefault(p_call.max_tokens, MAX_TOKENS)
           temperature == OrDefault(p_call.temperature, TEMPERATURE)
       IN p_call' = ParamsCall("sent", p_call.model, p_call.max_tokens, p_call.temperature,
                               to_try, Payload(to_try[1], max_tokens, temperature))
    /\ UNCHANGED <<is_initialized, retriever, i_call, gen_vars, chat_vars, direct_vars,
                   main_vars, threads>>

NextParams == chat_payload

SpecParams == InitParams /\ [][NextParams]_vars

(***************************************************************************)
(* Concurrent requests to a pipeline that is, or is not, initialized       *)
(***************************************************************************)
InitThreads ==
    /\ is_initialized \in BOOLEAN
    /\ retriever = (IF is_initialized THEN "built" ELSE "None")
    /\ i_call = NoInitializeCall
    /\ GenIdle
    /\ ChatIdle
    /\ a_call = NoAnalyzeCall
    /\ r_call = NoRetrieveCall
    /\ MainIdle

\* The steps of a thread change its locals and nothing else
ThreadStep(t, th) ==
    /\ threads' = Write(threads, t, th)
    /\ UNCHANGED <<is_initialized, retriever, i_call, gen_vars, chat_vars, direct_vars,
                   main_vars, p_call>>

\* Thread t runs generate_response(query) to its return or to its call of
\* groq_client.chat(prompt)
t_generate_response(t, query, answer) ==
    /\ threads[t].pc \in {"idle", "returned"}
    /\ \E stage \in {Catch(BeforeChat(query, is_initialized, answer))} :
          ThreadStep(t, Thread(IF stage.kind = "chat" THEN "in_chat" ELSE "returned",
                               query, answer, stage, 0, 0, NoneValue, 0, NoOutcome,
                               stage.value))

\* Thread t runs one iteration of the retry loop of chat
t_chat_attempt(t, o) ==
    /\ threads[t].pc = "in_chat"
    /\ LET th == threads[t]
           h == Handle(o, th.retry)
           leaveModel == h.act = "break" \/ th.retry + 1 >= MAX_RETRIES
           seen == [th EXCEPT !.sent = th.sent + 1, !.last = o]
       IN ThreadStep(t,
             IF h.act = "return"
             THEN [seen EXCEPT !.pc = "chat_returned", !.response = h.value]
             ELSE IF h.act = "raise"
             THEN [seen EXCEPT !.pc = "chat_raised"]
             ELSE IF ~leaveModel
             THEN [seen EXCEPT !.retry = th.retry + 1]
             ELSE IF th.attempt + 1 < Len(ModelsToTry(None))
             THEN [seen EXCEPT !.attempt = th.attempt + 1, !.retry = 0]
             ELSE [seen EXCEPT !.pc = "chat_returned", !.response = Str(Unavailable)])

\* Thread t runs generate_response from the return of chat to its own return
t_resume(t) ==
    /\ threads[t].pc \in {"chat_returned", "chat_raised"}
    /\ LET th == threads[t]
           after == IF th.pc = "chat_raised"
                    THEN Stage("raise", NoResult, "raised by chat", th.stage.calls,
                               th.stage.analysis, th.stage.context_parts, th.stage.prompt)
                    ELSE AfterChat(th.response, th.stage.calls, th.stage.analysis,
                                   th.stage.context_parts, th.stage.prompt)
       IN \E stage \in {Catch(after)} :
             ThreadStep(t, [th EXCEPT !.pc = "returned", !.stage = stage,
                                      !.result = stage.value])

NextThreads ==
    \/ \E t \in ThreadIds, q \in ThreadQueries, a \in ThreadAnswers :
          t_generate_response(t, q, a)
    \/ \E t \in ThreadIds, o \in ThreadOutcomes : t_chat_attempt(t, o)
    \/ \E t \in ThreadIds : t_resume(t)

SpecThreads == InitThreads /\ [][NextThreads]_vars

(***************************************************************************)
(* Properties of GroqClient.chat                                           *)
(***************************************************************************)
\* The request events of the model requested last
LogRequests == {i \in 1..Len(model_log) : model_log[i].ev = "request"}

\* An HTTP 200 response whose body carries choices[0].message.content
IsCompletion(o) == o.kind = "response" /\ o.status = 200 /\ o.body = "completion"

\* A non-200 status other than 429
IsOtherStatus(o) == o.kind = "response" /\ o.status \notin {200, 429}

Is429(o) == o.kind = "response" /\ o.status = 429

\* The last request of the call was answered by a completion
EndedByCompletion ==
    /\ model_log # <<>>
    /\ model_log[Len(model_log)].ev = "request"
    /\ IsCompletion(model_log[Len(model_log)].outcome)

\* The attempt list [primary] ++ fallbacks of the configuration
ConfiguredModels == <<DEFAULT_LLM_MODEL>> \o FALLBACK_MODELS

\* Every model of the attempt list has received MAX_RETRIES requests
AllExhausted == Len(requests) = Len(models_to_try) * MAX_RETRIES

\* C1: chat never raises, whatever the attempts yield (429, another status,
\* a timeout, a transport exception); a call that ends without a completion
\* has sent MAX_RETRIES requests to every model of its attempt list and
\* returns the fixed "unavailable" string, and once every model has used up
\* its retries the call has returned.
C1_ChatNeverRaises ==
    /\ c_pc \in {"idle", "loop", "returned"}
    /\ (c_pc = "returned" /\ ~EndedByCompletion) =>
           (c_result = Str(Unavailable) /\ AllExhausted)
    /\ (c_pc # "idle" /\ AllExhausted) => c_pc = "returned"
    /\ c_pc = "loop" => Len(requests) < Len(models_to_try) * MAX_RETRIES

\* C1 witness: the four configured models all failed three times, the last
\* attempt with a transport exception, and chat returned the sentinel.
C1_Witness ==
    /\ c_pc = "returned"
    /\ c_result = Str(Unavailable)
    /\ models_to_try = ConfiguredModels
    /\ Len(requests) = 12
    /\ model_log[Len(model_log)].outcome.kind = "ConnectionError"

\* C2: a 200 response carrying a completion, at any model and any retry
\* index, is the last event of its call: chat has returned that completion,
\* no request and no sleep follows it, and the position in the loops is
\* still that of the answered request.
C2_ReturnOn200 ==
    \A i \in LogRequests :
        IsCompletion(model_log[i].outcome) =>
            /\ i = Len(model_log)
            /\ c_pc = "returned"
            /\ c_result = model_log[i].outcome.content
            /\ requests[Len(requests)] = model_log[i].model
            /\ models_to_try[attempt + 1] = model_log[i].model
            /\ retry = model_log[i].retry
            /\ Len(requests) = attempt * MAX_RETRIES + retry + 1

\* C2 witness: the second fallback model answers 200 at its second retry
\* after a 429, and chat returns the text.
C2_Witness ==
    /\ c_pc = "returned"
    /\ c_result = Str(TextPlain)
    /\ attempt = 2
    /\ retry = 1
    /\ Len(model_log) = 3
    /\ Is429(model_log[1].outcome)
    /\ IsCompletion(model_log[3].outcome)

\* The call is about to retry `model` with retry index r
RetriesSame(model, r) ==
    /\ c_pc = "loop"
    /\ models_to_try[attempt + 1] = model
    /\ retry = r

\* The call has left `model` for the next model of the attempt list, or has
\* returned the sentinel if `model` was the last one
MovedOn(model) ==
    \/ /\ c_pc = "loop"
       /\ retry = 0
       /\ attempt >= 1
       /\ models_to_try[attempt] = model
    \/ /\ c_pc = "returned"
       /\ c_result = Str(Unavailable)
       /\ attempt = Len(models_to_try) - 1
       /\ models_to_try[attempt + 1] = model

\* Event i + 1 of the log is a sleep of secs seconds
SleepFollows(i, secs) ==
    /\ i < Len(model_log)
    /\ model_log[i + 1].ev = "sleep"
    /\ model_log[i + 1].secs = secs

\* After event j, the last of its iteration, the same model is requested
\* again with retry index r
RetryFollows(j, model, r) ==
    IF j = Len(model_log)
    THEN RetriesSame(model, r)
    ELSE /\ model_log[j + 1].ev = "request"
         /\ model_log[j + 1].model = model
         /\ model_log[j + 1].retry = r

\* C3: every 429 at retry index r is followed by a sleep of 2^r seconds
\* and, for r < 2, by a retry of the same model; a model that answered 429
\* at retry indices 0, 1 and 2 has the log request, sleep 1, request,
\* sleep 2, request, sleep 4, and only then is the next model next.
C3_Backoff429 ==
    /\ \A i \in LogRequests :
           Is429(model_log[i].outcome) =>
               /\ SleepFollows(i, 2 ^ model_log[i].retry)
               /\ IF model_log[i].retry < 2
                  THEN RetryFollows(i + 1, model_log[i].model, model_log[i].retry + 1)
                  ELSE i + 1 = Len(model_log) /\ MovedOn(model_log[i].model)
    /\ (Cardinality(LogRequests) = 3 /\ \A i \in LogRequests : Is429(model_log[i].outcome)) =>
           /\ Len(model_log) = 6
           /\ [i \in 1..6 |-> model_log[i].secs] = <<0, 1, 0, 2, 0, 4>>
           /\ [i \in 1..6 |-> model_log[i].ev] =
                  <<"request", "sleep", "request", "sleep", "request", "sleep">>
           /\ MovedOn(model_log[1].model)

\* C3 witness: the primary model answered 429 three times, the client slept
\* 1, 2 and 4 seconds, and the first fallback model is next.
C3_Witness ==
    /\ c_pc = "loop"
    /\ attempt = 1
    /\ retry = 0
    /\ Len(model_log) = 6
    /\ \A i \in {1, 3, 5} : Is429(model_log[i].outcome) /\ model_log[i].model = DEFAULT_LLM_MODEL
    /\ model_log[2].secs = 1 /\ model_log[4].secs = 2 /\ model_log[6].secs = 4

\* A timeout or another exception raised by the transport
IsTransportFailure(o) == o.kind \in {"Timeout", "ConnectionError"}

\* C4 as claimed: a non-200 non-429 status, a timeout or a transport
\* exception on the final retry of a model makes the client advance to the
\* next model, and on an earlier retry makes it sleep 1s and retry the
\* same model.
C4_SleepOnEveryFailure ==
    \A i \in LogRequests :
        LET e == model_log[i]
        IN (IsOtherStatus(e.outcome) \/ IsTransportFailure(e.outcome)) =>
               IF e.retry = MAX_RETRIES - 1
               THEN i = Len(model_log) /\ MovedOn(e.model)
               ELSE SleepFollows(i, 1) /\ RetryFollows(i + 1, e.model, e.retry + 1)

\* C4 amended: on the final retry of a model each of the three failures
\* makes the client advance to the next model without sleeping; on an
\* earlier retry a timeout or a transport exception makes it sleep 1s and
\* retry the same model, while a non-200 non-429 status makes it retry the
\* same model at once, without any sleep.
C4_SleepOnTransportFailureOnly ==
    \A i \in LogRequests :
        LET e == model_log[i]
        IN /\ (IsOtherStatus(e.outcome) \/ IsTransportFailure(e.outcome)) =>
                  (e.retry = MAX_RETRIES - 1 => i = Len(model_log) /\ MovedOn(e.model))
           /\ (IsTransportFailure(e.outcome) /\ e.retry < MAX_RETRIES - 1) =>
                  SleepFollows(i, 1) /\ RetryFollows(i + 1, e.model, e.retry + 1)
           /\ (IsOtherStatus(e.outcome) /\ e.retry < MAX_RETRIES - 1) =>
                  RetryFollows(i, e.model, e.retry + 1)

\* C4 witness: the primary model answered 500, then timed out, then failed
\* with a transport exception; the only sleep is the one after the timeout
\* and the first fallback model is next.
C4_Witness ==
    /\ c_pc = "loop"
    /\ attempt = 1
    /\ retry = 0
    /\ Len(model_log) = 4
    /\ IsOtherStatus(model_log[1].outcome)
    /\ model_log[2].ev = "request" /\ model_log[2].outcome.kind = "Timeout"
    /\ model_log[3].ev = "sleep" /\ model_log[3].secs = 1
    /\ model_log[4].ev = "request" /\ model_log[4].outcome.kind = "ConnectionError"

\* C5: with no caller-supplied model the requests of a call go to
\* [primary] ++ fallbacks in that order, MAX_RETRIES in a row to each: the
\* first request names the primary model, a later model is requested only
\* when the model before it has had exactly MAX_RETRIES requests none of
\* which was answered by a completion, and no model comes back.
C5_ModelOrder ==
    (c_pc # "idle" /\ c_model \in {None, ""}) =>
        /\ Len(requests) <= Len(ConfiguredModels) * MAX_RETRIES
        /\ \A i \in 1..Len(requests) :
               requests[i] = ConfiguredModels[((i - 1) \div MAX_RETRIES) + 1]
        /\ \A i \in LogRequests :
               IsCompletion(model_log[i].outcome) =>
                   /\ c_pc = "returned"
                   /\ model_log[i].model = requests[Len(requests)]
        /\ (c_pc = "loop" /\ retry = 0 /\ attempt >= 1) =>
               /\ Cardinality(LogRequests) = MAX_RETRIES
               /\ \A i \in LogRequests :
                      /\ model_log[i].model = ConfiguredModels[attempt]
                      /\ ~IsCompletion(model_log[i].outcome)
        /\ c_pc = "loop" => Len(requests) = attempt * MAX_RETRIES + retry

\* C5 witness: the last fallback model receives its first request, the
\* tenth of the call.
C5_Witness ==
    /\ c_model = None
    /\ c_pc = "loop"
    /\ Len(requests) = 10
    /\ requests[1] = DEFAULT_LLM_MODEL
    /\ requests[10] = "llama2-70b-4096"

\* C6: a call with a caller-supplied non-empty model sends every request to
\* that model, at most MAX_RETRIES of them, and after MAX_RETRIES attempts
\* without a completion it has returned the "unavailable" string.
C6_SuppliedModelOnly ==
    (c_pc # "idle" /\ c_model \notin {None, ""}) =>
        /\ \A i \in 1..Len(requests) : requests[i] = c_model
        /\ Len(requests) <= MAX_RETRIES
        /\ Len(requests) = MAX_RETRIES => c_pc = "returned"
        /\ (c_pc = "returned" /\ ~EndedByCompletion) =>
               (c_result = Str(Unavailable) /\ Len(requests) = MAX_RETRIES)

\* C6 witness: a call naming one of the fallback models failed three times
\* and returned the sentinel.
C6_Witness ==
    /\ c_model = "llama3-8b-8192"
    /\ c_pc = "returned"
    /\ c_result = Str(Unavailable)
    /\ requests = <<"llama3-8b-8192", "llama3-8b-8192", "llama3-8b-8192">>

(***************************************************************************)
(* Properties of HarryPotterRAG.generate_response                          *)
(***************************************************************************)
\* The query is empty or holds nothing but whitespace
BlankQuery(query) == \A i \in 1..Len(query) : query[i] = " "

\* The call on record made no request to the completion client
NoChatCall ==
    /\ c_pc = "idle"
    /\ requests = <<>>
    /\ \A i \in 1..Len(g_calls) : g_calls[i] # "groq_client.chat"

\* The call on record did not call the vector-store retriever
NoRetrieverCall ==
    \A i \in 1..Len(g_calls) : g_calls[i] \notin {"retrieve_context", "retriever.invoke"}

\* The strings generate_response can return
ResponseStrings ==
    {"Please cast a question spell by typing your query!",
     "RAG system not initialized. Please check the setup.",
     "I couldn't find relevant information in the Harry Potter books for your query.",
     "Magical Knowledge Retrieved", "Magical Response", "Spell Malfunction"}

\* C7: no exception leaves generate_response, whatever the retriever and
\* the completion client do: every call that ends has returned one of its
\* strings.
C7_NoExceptionEscapes ==
    /\ g_pc \in {"idle", "in_chat", "returned"}
    /\ g_pc = "returned" => g_result.msg \in ResponseStrings

\* C7 witness: the retriever raised and the call returned the "Spell
\* Malfunction" string.
C7_Witness ==
    /\ g_pc = "returned"
    /\ g_answer.kind = "raise"
    /\ g_result = SpellMalfunction("chromadb error")

\* C8: for an empty or whitespace-only query generate_response returns
\* the "please type your query" string without calling the retriever or
\* the completion client, initialized or not.
C8_BlankQueryGuard ==
    (g_pc # "idle" /\ BlankQuery(g_query)) =>
        /\ g_pc = "returned"
        /\ g_result = PleaseType
        /\ g_calls = <<>>
        /\ NoRetrieverCall
        /\ NoChatCall

\* C8 witness: a whitespace-only query on an initialized pipeline.
C8_Witness ==
    /\ g_pc = "returned"
    /\ is_initialized
    /\ g_query = QSpaces
    /\ g_result = PleaseType

\* C9: when retrieve_context yields no passage for a non-blank query on an
\* initialized pipeline, generate_response returns the "couldn't find
\* relevant information" string and chat is not called.
C9_EmptyContextShortCircuit ==
    (/\ g_pc # "idle"
     /\ ~BlankQuery(g_query)
     /\ is_initialized
     /\ g_answer.kind = "docs"
     /\ g_context_parts = <<>>) =>
        /\ g_pc = "returned"
        /\ g_result = NoInformation
        /\ g_calls = <<"analyze_query", "retrieve_context", "retriever.invoke">>
        /\ NoChatCall

\* C9 witness: the store returned one passage of 50 characters, which the
\* length filter dropped.
C9_Witness ==
    /\ g_pc = "returned"
    /\ is_initialized
    /\ g_query = QWhoIs
    /\ g_answer = Docs(<<PShort>>)
    /\ g_context_parts = <<>>
    /\ g_result = NoInformation

\* C10: a non-blank query while is_initialized is False returns the "RAG
\* system not initialized" string without any classification, retrieval or
\* completion call.
C10_NotInitializedGuard ==
    (g_pc # "idle" /\ ~BlankQuery(g_query) /\ ~is_initialized) =>
        /\ g_pc = "returned"
        /\ g_result = NotInitialized
        /\ g_calls = <<>>
        /\ NoRetrieverCall
        /\ NoChatCall

\* C10 witness: "Who is Snape" before initialize() succeeded.
C10_Witness ==
    /\ g_pc = "returned"
    /\ ~is_initialized
    /\ g_query = QWhoIs
    /\ g_result = NotInitialized

\* The call on record got its completion from groq_client.chat: chat
\* returned the text of an HTTP 200 completion, for at least one passage
ChatSucceeded ==
    /\ g_pc = "returned"
    /\ c_caller = "generate_response"
    /\ c_pc = "returned"
    /\ EndedByCompletion
    /\ c_result.type = "str"
    /\ g_context_parts # <<>>

\* C11: whenever chat returns the text of an HTTP 200 completion for a query
\* with at least one retrieved passage, generate_response returns that text
\* wrapped with the number of passages used and the query type, for every
\* completion text (stated here for the texts that are not empty).
C11_WrapsEveryCompletion ==
    (ChatSucceeded /\ c_result.text # <<>>) =>
        g_result = Enhanced(c_result, Len(g_context_parts), g_analysis.type)

\* The stages of generate_response, in the order of lines 264-276
StageOrder ==
    <<"analyze_query", "retrieve_context", "retriever.invoke",
      "create_enhanced_prompt", "groq_client.chat">>

\* The call on record has called groq_client.chat
ChatCalled ==
    \/ \E i \in 1..Len(g_calls) : g_calls[i] = "groq_client.chat"
    \/ c_caller = "generate_response" /\ c_pc # "idle"
    \/ g_pc # "idle" /\ requests # <<>>

\* C12: on a non-blank query and an initialized pipeline the stages run in
\* the order classifier, retriever, prompt composer, completion client, each
\* at most once; the retriever works with the classifier's analysis of the
\* stripped query; chat is called only after the prompt has been composed
\* from the retrieved passages.
C12_StageOrder ==
    (g_pc # "idle" /\ ~BlankQuery(g_query) /\ is_initialized) =>
        /\ g_calls # <<>>
        /\ Len(g_calls) <= Len(StageOrder)
        /\ g_calls = SubSeq(StageOrder, 1, Len(g_calls))
        /\ g_analysis.type \in {"character_analysis", "plot_summary",
                                "detail_query", "comparison", "general"}
        /\ g_analysis.complexity = WordCount(Strip(g_query))
        /\ Len(g_context_parts) <= g_analysis.k_docs
        /\ ChatCalled =>
              /\ g_calls = StageOrder
              /\ g_context_parts # <<>>
              /\ g_prompt.context = g_context_parts
              /\ g_prompt.query = Strip(g_query)
              /\ g_prompt.instruction = TypeInstruction(g_analysis.type)

\* C12 witness: a call that went through all four stages and came back with
\* the wrapped completion.
C12_Witness ==
    /\ g_pc = "returned"
    /\ is_initialized
    /\ g_calls = StageOrder
    /\ g_prompt.context = g_context_parts
    /\ Len(g_context_parts) = 2
    /\ g_result.msg = "Magical Knowledge Retrieved"

\* The query with its letters in lower case
Folded(query) == [i \in DOMAIN query |-> LowerChar(query[i])]

\* The query contains the word, whatever the case of its letters
HasWord(query, word) ==
    \E i \in 1..(Len(query) - Len(word) + 1) :
        \A j \in 1..Len(word) : Folded(query)[i + j - 1] = word[j]

HasAny(query, words) == \E w \in words : HasWord(query, w)

KwWhoIs == <<"w", "h", "o", " ", "i", "s">>

KwCompare == <<"c", "o", "m", "p", "a", "r", "e">>

KwVs == <<"v", "s">>

\* The query matches one of the three categories tested before comparison
MatchesEarlier(query) ==
    HasAny(query, CharacterPhrases \cup PlotWords \cup DetailWords)

\* C13: every query that contains "compare" or "vs" (case-insensitive) is
\* classified comparison.
C13_CompareIsComparison ==
    (a_call.pc = "returned" /\ HasAny(a_call.query, {KwCompare, KwVs})) =>
        a_call.analysis.type = "comparison"

\* C13 as amended: a query that contains "compare" or "vs" is classified
\* comparison, with k_docs 5, if it matches none of the categories tested
\* before; if it does, it gets the type of one of those categories.
C13_CompareUnlessEarlier ==
    (a_call.pc = "returned" /\ HasAny(a_call.query, {KwCompare, KwVs})) =>
        IF MatchesEarlier(a_call.query)
        THEN a_call.analysis.type \in {"character_analysis", "plot_summary", "detail_query"}
        ELSE a_call.analysis.type = "comparison" /\ a_call.analysis.k_docs = 5

\* C13 witness: "Snape Vs" is classified comparison.
C13_Witness ==
    /\ a_call.pc = "returned"
    /\ a_call.query = <<"S", "n", "a", "p", "e", " ", "V", "s">>
    /\ a_call.analysis.type = "comparison"

\* C14: every query that contains "who is" (case-insensitive), whatever
\* else it contains, is classified character_analysis with k_docs 4.
C14_WhoIsCharacter ==
    (a_call.pc = "returned" /\ HasWord(a_call.query, KwWhoIs)) =>
        /\ a_call.analysis.type = "character_analysis"
        /\ a_call.analysis.k_docs = 4

\* C14 witness: "whatWHO ISvs", which also holds a question word and a
\* comparison word, is classified character_analysis.
C14_Witness ==
    /\ a_call.pc = "returned"
    /\ a_call.query = <<"w", "h", "a", "t", "W", "H", "O", " ", "I", "S", "v", "s">>
    /\ a_call.analysis.type = "character_analysis"
    /\ a_call.analysis.k_docs = 4

\* The rule table: the categories in their priority order
RuleTable ==
    <<[words |-> CharacterPhrases, type |-> "character_analysis", k_docs |-> 4],
      [words |-> PlotWords, type |-> "plot_summary", k_docs |-> 6],
      [words |-> DetailWords, type |-> "detail_query", k_docs |-> 3],
      [words |-> ComparisonWords, type |-> "comparison", k_docs |-> 5]>>

\* The rows of the table the query matches
Hits(query) == {i \in 1..Len(RuleTable) : HasAny(query, RuleTable[i].words)}

\* C15: analyze_query is the ordered rule table: the first category, in the
\* order character-analysis phrases, plot/summary words, question words
\* (how, why, what, where, when, trivia), comparison words, with a
\* case-insensitive substring match gives the type and k_docs (4, 6, 3, 5);
\* a query matching none is general with k_docs 5.
C15_RuleTable ==
    /\ DetailWords = {<<"h", "o", "w">>, <<"w", "h", "y">>, <<"w", "h", "a", "t">>,
                      <<"w", "h", "e", "r", "e">>, <<"w", "h", "e", "n">>,
                      <<"t", "r", "i", "v", "i", "a">>}
    /\ a_call.pc = "returned" =>
          LET hits == Hits(a_call.query)
          IN IF hits = {}
             THEN a_call.analysis.type = "general" /\ a_call.analysis.k_docs = 5
             ELSE \E i \in hits :
                     /\ \A j \in hits : i <= j
                     /\ a_call.analysis.type = RuleTable[i].type
                     /\ a_call.analysis.k_docs = RuleTable[i].k_docs

\* C15 witness: "plotVswhat" matches the plot, question and comparison
\* categories and is classified plot_summary with k_docs 6.
C15_Witness ==
    /\ a_call.pc = "returned"
    /\ a_call.query = <<"p", "l", "o", "t", "V", "s", "w", "h", "a", "t">>
    /\ Hits(a_call.query) = {2, 3, 4}
    /\ a_call.analysis.type = "plot_summary"
    /\ a_call.analysis.k_docs = 6

\* A direct call of retrieve_context on an initialized pipeline has returned
\* what it made of the retriever's documents
Retrieved == r_call.pc = "returned" /\ is_initialized /\ r_call.answer.kind = "docs"

\* The passages of the result are the stripped texts of the documents at
\* the kept positions
KeptAreResult ==
    /\ Len(r_call.kept) = Len(r_call.outcome.value)
    /\ \A n \in 1..Len(r_call.kept) :
          /\ r_call.kept[n] \in 1..Len(r_call.answer.docs)
          /\ r_call.outcome.value[n] = PStrip(r_call.answer.docs[r_call.kept[n]])

\* The document at position i is in the result
IsKept(i) == \E n \in 1..Len(r_call.kept) : r_call.kept[n] = i

\* C16: of two retrieved passages whose first 100 characters are identical
\* only the first occurrence is kept: the later one never appears in the
\* result.
C16_LaterOfSamePrefixDropped ==
    Retrieved =>
        /\ KeptAreResult
        /\ \A j \in 1..Len(r_call.answer.docs) : \A i \in 1..(j - 1) :
              PTake(r_call.answer.docs[i], 100) = PTake(r_call.answer.docs[j], 100)
                  => ~IsKept(j)

\* C16 as amended: of two retrieved passages whose first 100 characters
\* after stripping the surrounding whitespace are identical, the later one
\* never appears in the result.
C16_LaterOfSameStrippedPrefixDropped ==
    Retrieved =>
        /\ KeptAreResult
        /\ \A j \in 1..Len(r_call.answer.docs) : \A i \in 1..(j - 1) :
              PTake(PStrip(r_call.answer.docs[i]), 100)
                    = PTake(PStrip(r_call.answer.docs[j]), 100)
                  => ~IsKept(j)

\* C16 witness: of two passages alike in their first 100 characters and
\* different after them, the first is returned and the second is not.
C16_Witness ==
    /\ Retrieved
    /\ r_call.answer.docs = <<PLongA, PLongA2>>
    /\ r_call.outcome.value = <<PLongA>>

\* C17: a retrieved passage of 50 characters or less never appears in the
\* result, whatever its position, and a short passage that was dropped
\* never makes a later passage a duplicate: a passage of more than 50
\* characters within the first k_docs is left out only if an earlier
\* passage with the same first 100 characters is in the result.
C17_ShortDropped ==
    Retrieved =>
        /\ KeptAreResult
        /\ \A i \in 1..Len(r_call.answer.docs) :
              PLen(r_call.answer.docs[i]) <= 50 => ~IsKept(i)
        /\ \A n \in 1..Len(r_call.outcome.value) : PLen(r_call.outcome.value[n]) > 50
        /\ \A j \in 1..Len(r_call.answer.docs) :
              (/\ j <= r_call.used.k_docs
               /\ PLen(PStrip(r_call.answer.docs[j])) > 50
               /\ ~IsKept(j))
                  => \E i \in 1..(j - 1) :
                        /\ IsKept(i)
                        /\ PTake(PStrip(r_call.answer.docs[i]), 100)
                              = PTake(PStrip(r_call.answer.docs[j]), 100)

\* C17 witness: a passage of exactly 50 characters between two longer ones
\* is dropped and the passages around it are returned.
C17_Witness ==
    /\ Retrieved
    /\ r_call.answer.docs = <<PLongB, PShort, PLongA>>
    /\ r_call.kept = <<1, 3>>
    /\ r_call.outcome.value = <<PLongB, PLongA>>

\* C18: the result is a subsequence of the retrieved passages, in their
\* order (each passage with its surrounding whitespace stripped), and has
\* at most analysis.k_docs passages.
C18_OrderedSubsequence ==
    Retrieved =>
        /\ KeptAreResult
        /\ \A n \in 1..(Len(r_call.kept) - 1) : r_call.kept[n] < r_call.kept[n + 1]
        /\ Len(r_call.outcome.value) <= r_call.used.k_docs

\* C18 witness: five distinct passages are retrieved for a query with
\* k_docs 3 and the first three are returned.
C18_Witness ==
    /\ Retrieved
    /\ r_call.used.k_docs = 3
    /\ Len(r_call.answer.docs) = 5
    /\ r_call.kept = <<1, 2, 3>>
    /\ r_call.outcome.value = <<PLongB, PStrip(PPadB), PStrip(PPadC)>>

\* C19: retrieve_context called while is_initialized is False raises the
\* "not initialized" error before any call of the vector-store retriever.
C19_UninitializedRaises ==
    (r_call.pc \in {"returned", "raised"} /\ ~is_initialized) =>
        /\ r_call.pc = "raised"
        /\ r_call.outcome.error = "RAG system not initialized. Call initialize() first."
        /\ ~r_call.outcome.invoked

\* C19 witness: a call before initialization, with a store that would have
\* answered two passages, has raised.
C19_Witness ==
    /\ ~is_initialized
    /\ r_call.pc = "raised"
    /\ r_call.answer = Docs(<<PShort, PLongB>>)
    /\ ~r_call.outcome.invoked

\* C20: on an initialized pipeline, when the vector store yields no
\* matches, retrieve_context returns an empty sequence and does not raise.
C20_NoMatchesReturnsEmpty ==
    (r_call.pc \in {"returned", "raised"} /\ is_initialized
        /\ r_call.answer = Docs(<<>>)) =>
        /\ r_call.pc = "returned"
        /\ r_call.outcome.kind = "return"
        /\ r_call.outcome.value = <<>>
        /\ r_call.outcome.invoked

\* C20 witness: the retriever was called, found nothing, and the call
\* returned the empty list.
C20_Witness ==
    /\ is_initialized
    /\ r_call.pc = "returned"
    /\ r_call.answer = Docs(<<>>)
    /\ r_call.outcome.invoked
    /\ r_call.outcome.value = <<>>

\* The step of main() on record under `event` has happened
Logged(event) == \E i \in 1..Len(main_log) : main_log[i] = event

\* C21: main() creates and launches the UI only after validate_environment()
\* and then initialize_system() have both returned True; if either returns
\* False, main returns False and the interface is never created or launched;
\* so the UI handler never runs against a pipeline whose is_initialized is
\* False.
C21_StartupGate ==
    /\ interface # "None" =>
          /\ Len(main_log) >= 2
          /\ main_log[1] = "validate_environment=True"
          /\ main_log[2] = "initialize_system=True"
          /\ is_initialized
    /\ (Logged("validate_environment=False") \/ Logged("initialize_system=False")) =>
          /\ main_pc = "returned"
          /\ main_result = "False"
          /\ interface = "None"
          /\ g_pc = "idle"
    /\ g_pc # "idle" =>
          /\ interface = "launched"
          /\ is_initialized

\* C21 witness: the interface was launched and its handler answered a query
\* with the wrapped completion.
C21_Witness ==
    /\ interface = "launched"
    /\ main_log = <<"validate_environment=True", "initialize_system=True", "interface.launch">>
    /\ g_pc = "returned"
    /\ is_initialized
    /\ g_result.msg = "Magical Knowledge Retrieved"

\* C22: when GROQ_API_KEY is absent, validate_config returns (it does not
\* raise) a list of errors holding the missing-credential error, and
\* validate_environment returns False without any request to the
\* completion API.
C22_MissingKey ==
    (main_pc \notin {"idle", "start"} /\ ~main_env.key_set) =>
        /\ \E i \in 1..Len(config_errors) : config_errors[i] = KeyNotSet
        /\ main_log = <<"validate_environment=False">>
        /\ main_pc = "returned"
        /\ main_result = "False"
        /\ api_test = NoApiTest
        /\ c_pc = "idle"
        /\ requests = <<>>

\* C22 witness: the database is there and only the key is missing.
C22_Witness ==
    /\ main_pc = "returned"
    /\ main_env = [key_set |-> FALSE, db_exists |-> TRUE]
    /\ config_errors = <<KeyNotSet>>
    /\ main_result = "False"
    /\ requests = <<>>

\* What generate_response(query) returns when it runs alone, the retriever
\* answering `answer` and chat returning `response`
AloneResult(query, initialized, answer, response) ==
    LET before == Catch(BeforeChat(query, initialized, answer))
    IN IF before.kind = "chat"
       THEN Catch(AfterChat(response, before.calls, before.analysis,
                            before.context_parts, before.prompt)).value
       ELSE before.value

\* The locals of thread t are those of a call running alone
Isolated(t) ==
    LET th == threads[t]
        before == Catch(BeforeChat(th.query, is_initialized, th.answer))
    IN /\ th.pc = "in_chat" =>
             /\ before.kind = "chat"
             /\ th.stage = before
             /\ th.sent = th.attempt * MAX_RETRIES + th.retry
             /\ th.sent < Len(ConfiguredModels) * MAX_RETRIES
             /\ th.sent > 0 => ~IsCompletion(th.last)
       /\ th.pc = "chat_returned" =>
             /\ th.stage = before
             /\ IF IsCompletion(th.last)
                THEN th.response = th.last.content
                ELSE /\ th.response = Str(Unavailable)
                     /\ th.sent = Len(ConfiguredModels) * MAX_RETRIES
       /\ th.pc = "returned" =>
             /\ th.result = AloneResult(th.query, is_initialized, th.answer, th.response)
             /\ th.sent > 0 =>
                   IF IsCompletion(th.last)
                   THEN th.response = th.last.content
                   ELSE th.response = Str(Unavailable)
       /\ th.pc # "chat_raised"

\* C23: generate_response mutates no shared state: whatever the interleaving
\* of concurrent calls, is_initialized and the retriever stay as they are,
\* and each call's locals and result are those of the same call running
\* alone with the same answers of the retriever and of the completion API.
C23_NoSharedState ==
    /\ [](\A t \in ThreadIds : Isolated(t))
    /\ [][is_initialized' = is_initialized /\ retriever' = retriever]_vars

\* C23 witness: thread 1 is in the middle of its retries while thread 2,
\* which also called chat, has returned the wrapped completion.
C23_Witness ==
    /\ is_initialized
    /\ threads[1].pc = "in_chat"
    /\ threads[1].sent = 4
    /\ threads[2].pc = "returned"
    /\ threads[2].sent = 2
    /\ threads[2].result.msg = "Magical Knowledge Retrieved"

\* The first n passages the store holds are longer than 50 characters and
\* differ in their first 100
DistinctLong(store, n) ==
    /\ Len(store) >= n
    /\ \A i \in 1..n : PLen(PStrip(store[i])) > 50
    /\ \A i \in 1..n : \A j \in 1..(i - 1) :
          PTake(PStrip(store[i]), 100) # PTake(PStrip(store[j]), 100)

\* C24: the retriever is asked for as many passages as the k_docs of the
\* query's analysis, so for every query type, plot_summary with k_docs 6
\* included, retrieve_context returns k_docs passages when the store holds
\* at least k_docs distinct passages longer than 50 characters.
C24_ReturnsKDocs ==
    (Retrieved /\ DistinctLong(r_call.store, r_call.used.k_docs)) =>
        Len(r_call.outcome.value) = r_call.used.k_docs

\* The number of requests the call has sent to model m
RequestsTo(m) == Cardinality({i \in 1..Len(requests) : requests[i] = m})

\* chat returned the content of an HTTP 200 completion
Success ==
    /\ c_pc = "returned"
    /\ EndedByCompletion
    /\ c_result = model_log[Len(model_log)].outcome.content

\* chat returned the sentinel after every model used up its retries
Exhausted ==
    /\ c_pc = "returned"
    /\ ~EndedByCompletion
    /\ c_result = Str(Unavailable)
    /\ AllExhausted

\* C25: every chat call terminates, each HTTP request returning or timing
\* out, in exactly one of Success or AllExhausted, after at most
\* len(models_to_try) * MAX_RETRIES requests in total and at most
\* MAX_RETRIES requests to any single model.
C25_Terminates ==
    /\ [](c_pc # "idle" =>
            /\ Len(requests) <= Len(models_to_try) * MAX_RETRIES
            /\ \A i \in 1..Len(models_to_try) : RequestsTo(models_to_try[i]) <= MAX_RETRIES
            /\ \A i \in 1..Len(requests) :
                  \E j \in 1..Len(models_to_try) : requests[i] = models_to_try[j]
            /\ c_pc \in {"loop", "returned"}
            /\ c_pc = "returned" => (Success /\ ~Exhausted) \/ (Exhausted /\ ~Success))
    /\ (c_pc = "loop") ~> (c_pc = "returned")

\* C25 witness: the first model timed out three times and the second model
\* answered its second request with a completion, which the call returned
C25_Witness ==
    /\ Success
    /\ Len(models_to_try) = 4
    /\ Len(requests) = 5
    /\ RequestsTo(models_to_try[1]) = MAX_RETRIES
    /\ RequestsTo(models_to_try[2]) = 2
    /\ model_log[1].outcome.kind = "Timeout"

\* The call of chat on record is the one test_connection made, and
\* validate_environment has gone on from its return
TestedConnection == c_caller = "test_connection" /\ main_pc \notin {"start", "testing"}

\* C26: validate_environment returns False, and start-up stops, when the
\* connection test fails: test_connection reports status "success" only if
\* chat obtained an HTTP 200 completion from some model, and reports status
\* "error" when every model attempt failed.
C26_FailedTestStops ==
    TestedConnection =>
        /\ api_test.status = "success" => EndedByCompletion
        /\ ~EndedByCompletion =>
              /\ api_test.status = "error"
              /\ Logged("validate_environment=False")
              /\ main_result = "False"

\* The document at position i passes the two filters: it is longer than 50
\* characters and no earlier document has its first 100 characters
Qualifies(i) ==
    /\ PLen(PStrip(r_call.answer.docs[i])) > 50
    /\ \A j \in 1..(i - 1) :
          PTake(PStrip(r_call.answer.docs[j]), 100) # PTake(PStrip(r_call.answer.docs[i]), 100)

\* C27: retrieve_context cuts the retrieved sequence to its first k_docs
\* passages before it applies the length and duplicate filters: the result
\* holds exactly the qualifying passages among the first k_docs, and a
\* passage at a position beyond k_docs is never returned, even when earlier
\* passages were dropped as short or duplicate.
C27_CutBeforeFilter ==
    Retrieved =>
        /\ KeptAreResult
        /\ \A i \in 1..Len(r_call.answer.docs) :
              IsKept(i) <=> (i <= r_call.used.k_docs /\ Qualifies(i))

\* C27 witness: of four retrieved documents the first is short and the
\* fourth qualifies, and with k_docs 3 only the second and third are
\* returned: fewer than k_docs although three qualifying passages were
\* retrieved.
C27_Witness ==
    /\ Retrieved
    /\ r_call.used.k_docs = 3
    /\ r_call.answer.docs = <<PShort, PLongB, PLongA, PPadB>>
    /\ Qualifies(4)
    /\ r_call.kept = <<2, 3>>
    /\ Len(r_call.outcome.value) = 2

\* The environment lets initialize() pass every step: the database path
\* exists, the embedding model and the vector store load, and a test
\* retrieval yields a document
EveryStepPasses(env) == env.path_exists /\ env.components_load /\ env.test_docs

\* C28: is_initialized is True only if some initialize() call built the
\* retriever and obtained a document from a test retrieval; a call of
\* initialize() that fails at any step returns False without raising and
\* does not set is_initialized; nothing resets is_initialized from True to
\* False.
C28_InitializedOnlyBySuccess ==
    /\ [](is_initialized => retriever = "built")
    /\ [][/\ is_initialized => is_initialized'
          /\ (~is_initialized /\ is_initialized') =>
                /\ i_call'.pc = "returned"
                /\ i_call'.result = TRUE
                /\ EveryStepPasses(i_call'.env)
                /\ retriever' = "built"
          /\ (i_call'.pc = "returned" /\ ~EveryStepPasses(i_call'.env)) =>
                /\ i_call'.result = FALSE
                /\ is_initialized' = is_initialized]_vars

\* C28 witness: after a successful initialize(), a second call found no
\* test documents and returned False, and is_initialized is still True
C28_Witness ==
    /\ is_initialized
    /\ retriever = "built"
    /\ i_call.pc = "returned"
    /\ i_call.result = FALSE
    /\ i_call.env = [path_exists |-> TRUE, components_load |-> TRUE, test_docs |-> FALSE]

\* C29: chat collapses falsy overrides into "unset": a call with
\* max_tokens == 0, temperature == 0 or model == "" sends its request with
\* the configured default (MAX_TOKENS, TEMPERATURE, the full model list),
\* exactly as when the parameter is absent; any other value is sent as the
\* caller gave it.
C29_FalsyIsUnset ==
    p_call.pc = "sent" =>
        /\ p_call.max_tokens \in {Absent, Given(0)} => p_call.payload.max_tokens = MAX_TOKENS
        /\ p_call.max_tokens \notin {Absent, Given(0)} =>
               p_call.max_tokens = Given(p_call.payload.max_tokens)
        /\ p_call.temperature \in {Absent, Given(0)} => p_call.payload.temperature = TEMPERATURE
        /\ p_call.temperature \notin {Absent, Given(0)} =>
               p_call.temperature = Given(p_call.payload.temperature)
        /\ p_call.model \in {None, ""} =>
               /\ p_call.models_to_try = ConfiguredModels
               /\ p_call.payload.model = DEFAULT_LLM_MODEL
        /\ p_call.model \notin {None, ""} =>
               /\ p_call.models_to_try = <<p_call.model>>
               /\ p_call.payload.model = p_call.model
        /\ p_call.payload.top_p = TOP_P

\* C29 witness: chat(prompt, model="", max_tokens=0, temperature=0) sent the
\* configured defaults to the primary model
C29_Witness ==
    /\ p_call.pc = "sent"
    /\ p_call.model = ""
    /\ p_call.max_tokens = Given(0)
    /\ p_call.temperature = Given(0)
    /\ p_call.payload = Payload(DEFAULT_LLM_MODEL, MAX_TOKENS, TEMPERATURE)
    /\ Len(p_call.models_to_try) = 4

\* An HTTP 200 response whose body does not carry choices[0].message.content
IsMalformed200(o) == o.kind = "response" /\ o.status = 200 /\ o.body = "malformed"

\* C30: an HTTP 200 response whose body does not carry
\* choices[0].message.content never makes chat raise or return it: it is
\* handled like a transport exception, the client sleeping 1s and retrying
\* the same model, or leaving the model for the next one (for the sentinel
\* after the last one) when it was the model's final retry.
C30_Malformed200Retried ==
    /\ c_pc # "raised"
    /\ \A i \in LogRequests :
          LET e == model_log[i]
          IN IsMalformed200(e.outcome) =>
                /\ e.retry < MAX_RETRIES - 1 =>
                       SleepFollows(i, 1) /\ RetryFollows(i + 1, e.model, e.retry + 1)
                /\ e.retry = MAX_RETRIES - 1 =>
                       /\ i = Len(model_log)
                       /\ MovedOn(e.model)
                /\ (i = Len(model_log) /\ c_pc = "returned") =>
                       c_result = Str(Unavailable) /\ AllExhausted

\* C30 witness: the primary model answered three times with HTTP 200 and a
\* body without the completion; the client slept 1s after the first two and
\* is about to request the first fallback model.
C30_Witness ==
    /\ c_pc = "loop"
    /\ attempt = 1
    /\ retry = 0
    /\ Len(model_log) = 5
    /\ \A i \in {1, 3, 5} : model_log[i].ev = "request" /\ IsMalformed200(model_log[i].outcome)
    /\ \A i \in {2, 4} : model_log[i].ev = "sleep" /\ model_log[i].secs = 1

====
